---- MODULE Spec2Model ----
(***************************************************************************)
(* Reconciliation engine of ai-block-bookkeeper.                           *)
(*                                                                         *)
(*   Matcher      backend/agents/reconciliation/matcher.py                 *)
(*   Repository   src/database/repositories/business_event_repository.py   *)
(*   Helpers      backend/agents/reconciliation/database_helpers.py        *)
(*   Agent        backend/agents/reconciliation_agent.py                   *)
(*                                                                         *)
(* Four specifications share the variables below:                          *)
(*   SpecMatcher  evaluate_match applied to drawn inputs                   *)
(*   SpecLookup   the four counterpart lookups applied to drawn tables     *)
(*   Spec         the repository under the lock-based trigger dispatcher   *)
(*   SpecAgent    process_reconciliation over the supabase helpers         *)
(***************************************************************************)
EXTENDS Integers, Sequences, FiniteSets, TLC

VARIABLES
    m_event,        \* matcher: the event argument
    m_counterpart,  \* matcher: the counterpart argument (NoEvent for None)
    m_result,       \* matcher: the MatchResult returned, NoResult before the call
    events,         \* the committed business_events table: event_id -> row
    l_call,         \* lookup: the last lookup called, with its arguments
    l_result,       \* lookup: the row it returned (NoEvent for None)
    audit,          \* the committed audit_logs table, in insertion order
    pc,             \* task -> where the task stands in its attempt
    cur,            \* task -> the event_id the coordinator is run for
    batch,          \* task -> the event_ids of the sweep's batch still to process
    cp,             \* task -> the counterpart row the lookup returned
    mr,             \* task -> the MatchResult of the attempt
    writes,         \* task -> event_id -> the row the open transaction wrote
    txaudit,        \* task -> the audit entries the open transaction inserted
    held,           \* task -> the event_ids whose row lock the transaction holds
    outcome,        \* task -> how the task's last attempt ended
    before,         \* task -> the committed pair rows when the pair update began
    nwrites,        \* task -> the statements of the attempt that wrote a row or a log
    nAttempts,      \* the attempts started so far
    a_pc,           \* agent: where the request handler stands
    a_event,        \* agent: the business_event dict of the request being handled
    a_cp,           \* agent: the counterpart row the helper returned
    a_mr,           \* agent: the MatchResult of the request
    a_result,       \* agent: the dict process_reconciliation returns
    reconciliations, \* the reconciliations table, in insertion order
    responses,      \* the ReconciliationResponse messages sent, in order
    nRequests       \* the requests received so far

matcherVars == <<m_event, m_counterpart, m_result>>

lookupVars == <<l_call, l_result>>

taskVars == <<pc, cur, batch, cp, mr, writes, txaudit, held, outcome, before, nwrites,
              nAttempts>>

engineVars == <<audit, pc, cur, batch, cp, mr, writes, txaudit, held, outcome, before,
                nwrites, nAttempts>>

agentVars == <<a_pc, a_event, a_cp, a_mr, a_result, reconciliations, responses,
               nRequests>>

vars == <<m_event, m_counterpart, m_result, events, l_call, l_result, audit, pc, cur,
          batch, cp, mr, writes, txaudit, held, outcome, before, nwrites, nAttempts,
          a_pc, a_event, a_cp, a_mr, a_result, reconciliations, responses, nRequests>>

(***************************************************************************)
(* Domain values                                                           *)
(***************************************************************************)

\* metadata.get(key) of a key that is not in the metadata (Python None)
Absent == "<absent>"

\* the empty string as a metadata value
Empty == ""

\* Optional[float] confidence left at its default None
NoConfidence == "None"

NoId == 0

EventKind == {"INVOICE_RECEIVED", "INVOICE_SENT", "PAYMENT_SENT"}

InvoiceKinds == {"INVOICE_RECEIVED", "INVOICE_SENT"}

\* an event row; match = NoId is a null metadata->>'reconciliation_match_id'
BusinessEvent(id, kind, amount, currency, state, inv, pay, rec) ==
    [event_id |-> id, event_kind |-> kind, amount_minor |-> amount,
     currency |-> currency, state |-> state,
     invoice_number |-> inv, payment_reference |-> pay,
     match |-> NoId, notes |-> <<>>, attempted_at |-> 0, recorded_at |-> rec]

\* Python None where a BusinessEvent is expected
NoEvent == BusinessEvent(NoId, "NONE", 0, "NONE", "NONE", Absent, Absent, 0)

NoDiscrepancy == [type |-> "NONE", invoice_amount |-> 0, payment_amount |-> 0, difference |-> 0]

Discrepancy(t, ia, pa, d) ==
    [type |-> t, invoice_amount |-> ia, payment_amount |-> pa, difference |-> d]

MatchResult(t, c, iid, pid, d) ==
    [type |-> t, confidence |-> c, invoice_id |-> iid, payment_id |-> pid, discrepancy |-> d]

NoResult == MatchResult("NONE", NoConfidence, NoId, NoId, NoDiscrepancy)

\* a table without rows
NoRows == <<>>

NoCall == [fn |-> "NONE", reference |-> Absent, state |-> "NONE", currency |-> "NONE"]

\* the variables a specification does not use stay at these values
MatcherIdle == m_event = NoEvent /\ m_counterpart = NoEvent /\ m_result = NoResult

LookupIdle == l_call = NoCall /\ l_result = NoEvent

EngineIdle ==
    /\ audit = <<>> /\ pc = <<>> /\ cur = <<>> /\ batch = <<>> /\ cp = <<>> /\ mr = <<>>
    /\ writes = <<>> /\ txaudit = <<>> /\ held = <<>> /\ outcome = <<>>
    /\ before = <<>> /\ nwrites = <<>> /\ nAttempts = 0

\* the dict process_reconciliation returns and the response carries
AgentResult(success, status, matched, error) ==
    [success |-> success, reconciliation_status |-> status,
     matched_event_id |-> matched, error_message |-> error]

NoAgentResult == AgentResult(FALSE, "NONE", NoId, "NONE")

AgentIdle ==
    /\ a_pc = "idle" /\ a_event = NoEvent /\ a_cp = NoEvent /\ a_mr = NoResult
    /\ a_result = NoAgentResult /\ reconciliations = <<>> /\ responses = <<>>
    /\ nRequests = 0

(***************************************************************************)
(* Matcher                                                                 *)
(***************************************************************************)

TOLERANCE_FIXED == 500

\* Python abs() on integers
Abs(x) == IF x < 0 THEN -x ELSE x

Sign(x) == IF x < 0 THEN -1 ELSE IF x > 0 THEN 1 ELSE 0

(* A Decimal as hundredths plus an excess below one hundredth: the value is  *)
(* cents/100 + eps*d with 0 < d < 1/100.  Decimal(TOLERANCE_PERCENT) is the  *)
(* binary double nearest 0.01, which is 0.01000000000000000020816..., so      *)
(* invoice_amount * Decimal(0.01) lies above invoice_amount/100 for a         *)
(* positive amount and below it for a negative one, by less than 1/100 for    *)
(* every amount below 4 * 10^16 in magnitude.                                 *)
DecimalTimesPercentBelow(amount) == [cents |-> amount, eps |-> -Sign(amount)]

DecimalTimesPercent(amount) == [cents |-> amount, eps |-> Sign(amount)]

DecimalOfInt(n) == [cents |-> 100 * n, eps |-> 0]

DecLeq(a, b) == a.cents < b.cents \/ (a.cents = b.cents /\ a.eps <= b.eps)

DecMax(a, b) == IF DecLeq(a, b) THEN b ELSE a

DecMin(a, b) == IF DecLeq(a, b) THEN a ELSE b

\* tolerance = min(invoice_amount * Decimal(TOLERANCE_PERCENT), Decimal(TOLERANCE_FIXED))
ToleranceMax(invoice_amount) ==
    DecMax(DecimalTimesPercent(invoice_amount), DecimalOfInt(TOLERANCE_FIXED))

Tolerance(invoice_amount) ==
    DecMin(DecimalTimesPercent(invoice_amount), DecimalOfInt(TOLERANCE_FIXED))

\* amount_diff <= tolerance
WithinToleranceStrict(amount_diff, invoice_amount) ==
    ~DecLeq(Tolerance(invoice_amount), DecimalOfInt(amount_diff))

WithinTolerance(amount_diff, invoice_amount) ==
    DecLeq(DecimalOfInt(amount_diff), Tolerance(invoice_amount))

ExtractFieldsSameCurrency(event, counterpart) ==
    LET inv == IF event.event_kind = "INVOICE_RECEIVED" THEN event ELSE counterpart
        pay == IF event.event_kind = "INVOICE_RECEIVED" THEN counterpart ELSE event
    IN [invoice_num |-> inv.invoice_number,
        payment_ref |-> IF event.currency = counterpart.currency
                        THEN pay.payment_reference ELSE Absent,
        invoice_amount |-> inv.amount_minor,
        payment_amount |-> pay.amount_minor,
        invoice_id |-> inv.event_id,
        payment_id |-> pay.event_id]

\* the six fields evaluate_match extracts, by the kind of the triggering event
ExtractFields(event, counterpart) ==
    IF event.event_kind = "INVOICE_RECEIVED"
    THEN [invoice_num |-> event.invoice_number,
          payment_ref |-> counterpart.payment_reference,
          invoice_amount |-> event.amount_minor,
          payment_amount |-> counterpart.amount_minor,
          invoice_id |-> event.event_id,
          payment_id |-> counterpart.event_id]
    ELSE [invoice_num |-> counterpart.invoice_number,
          payment_ref |-> event.payment_reference,
          invoice_amount |-> counterpart.amount_minor,
          payment_amount |-> event.amount_minor,
          invoice_id |-> counterpart.event_id,
          payment_id |-> event.event_id]

\* Python truthiness of a metadata value: None and "" are falsy
Falsy(ref) == ref = Absent \/ ref = Empty

ReferenceMismatchNoEmptyCheck(f) == f.invoice_num # f.payment_ref

\* not invoice_num or not payment_ref or invoice_num != payment_ref
ReferenceMismatch(f) ==
    Falsy(f.invoice_num) \/ Falsy(f.payment_ref) \/ f.invoice_num # f.payment_ref

\* MatchResult(type='NO_MATCH'): every other field keeps its default None
NoMatchResult == MatchResult("NO_MATCH", NoConfidence, NoId, NoId, NoDiscrepancy)

AmountDiffSigned(f) == f.invoice_amount - f.payment_amount

AmountDiff(f) == Abs(f.invoice_amount - f.payment_amount)

evaluate_match(event, counterpart) ==
    IF counterpart = NoEvent
    THEN NoMatchResult
    ELSE LET f == ExtractFields(event, counterpart)
         IN IF ReferenceMismatch(f)
            THEN NoMatchResult
            ELSE IF WithinTolerance(AmountDiff(f), f.invoice_amount)
                 THEN MatchResult("PRIMARY_MATCH", "1.0", f.invoice_id, f.payment_id,
                                  NoDiscrepancy)
                 ELSE MatchResult("PARTIAL_MATCH", "0.5", f.invoice_id, f.payment_id,
                                  Discrepancy("AMOUNT_MISMATCH", f.invoice_amount,
                                              f.payment_amount, AmountDiff(f)))

(***************************************************************************)
(* SpecMatcher: evaluate_match on inputs drawn from bounded sets           *)
(***************************************************************************)

MaxDelta == 2

RefValues == {Absent, Empty, "INV-001", "INV-002"}

Currencies == {"USD", "EUR"}

BaseAmounts == {-100, 0, 1, 150, 1000, 49999, 50000, 100000}

BigDeltas == {10, 11, 400, 499, 500, 501, 1000, 5000}

Deltas == (-MaxDelta .. MaxDelta) \cup BigDeltas \cup {-d : d \in BigDeltas}

\* an event as the matcher sees it: an invoice carries invoice_number, a
\* payment carries payment_reference
MatcherEvent(id, kind, amount, currency, ref) ==
    BusinessEvent(id, kind, amount, currency, "MAPPED",
                  IF kind \in InvoiceKinds THEN ref ELSE Absent,
                  IF kind \in InvoiceKinds THEN Absent ELSE ref,
                  id)

InitMatcher ==
    /\ \E k \in EventKind, a \in BaseAmounts, c \in Currencies, r \in RefValues :
          m_event = MatcherEvent(1, k, a, c, r)
    /\ \/ m_counterpart = NoEvent
       \/ \E k \in EventKind, d \in Deltas, c \in Currencies, r \in RefValues :
             m_counterpart = MatcherEvent(2, k, m_event.amount_minor + d, c, r)
    /\ m_result = NoResult
    /\ events = NoRows
    /\ LookupIdle
    /\ EngineIdle
    /\ AgentIdle

Evaluate ==
    /\ m_result = NoResult
    /\ m_result' = evaluate_match(m_event, m_counterpart)
    /\ UNCHANGED <<m_event, m_counterpart, events, lookupVars, engineVars, agentVars>>

NextMatcher == Evaluate

SpecMatcher == InitMatcher /\ [][NextMatcher]_vars

(***************************************************************************)
(* Counterpart lookups                                                     *)
(***************************************************************************)

Rows(table) == {table[i] : i \in DOMAIN table}

\* LIMIT 1 / fetchrow without ORDER BY: any one of the selected rows, None
\* when nothing is selected
LimitOne(selected) == IF selected = {} THEN {NoEvent} ELSE selected

\* metadata->>key = $n in SQL: false for a missing key (NULL)
SqlRefEq(value, wanted) == value # Absent /\ wanted # Absent /\ value = wanted

find_payment_by_reference_any_match(table, payment_reference, processing_state, currency) ==
    LimitOne({r \in Rows(table) :
                 /\ r.event_kind = "PAYMENT_SENT"
                 /\ r.state = processing_state
                 /\ r.currency = currency
                 /\ SqlRefEq(r.payment_reference, payment_reference)})

\* repository: the possible results of find_payment_by_reference
find_payment_by_reference(table, payment_reference, processing_state, currency) ==
    LimitOne({r \in Rows(table) :
                 /\ r.event_kind = "PAYMENT_SENT"
                 /\ r.state = processing_state
                 /\ r.currency = currency
                 /\ SqlRefEq(r.payment_reference, payment_reference)
                 /\ r.match = NoId})

\* repository: the possible results of find_invoice_by_number
find_invoice_by_number(table, invoice_number, processing_state, currency) ==
    LimitOne({r \in Rows(table) :
                 /\ r.event_kind = "INVOICE_RECEIVED"
                 /\ r.state = processing_state
                 /\ r.currency = currency
                 /\ SqlRefEq(r.invoice_number, invoice_number)
                 /\ r.match = NoId})

\* helpers: the query of find_matching_payment, .limit(1) before the
\* reference is looked at
UnreconciledPaymentsLimitOne(table, currency) ==
    LimitOne({r \in Rows(table) :
                 /\ r.event_kind = "PAYMENT_SENT"
                 /\ r.state = "POSTED_ONCHAIN"
                 /\ r.currency = currency
                 /\ r.match = NoId})

\* helpers: the query of find_matching_invoice
UnreconciledInvoicesLimitOne(table, currency) ==
    LimitOne({r \in Rows(table) :
                 /\ r.event_kind \in {"INVOICE_RECEIVED", "INVOICE_SENT"}
                 /\ r.state = "POSTED_ONCHAIN"
                 /\ r.currency = currency
                 /\ r.match = NoId})

\* metadata.get(key) == wanted in Python: None equals only None
PyRefEq(value, wanted) == value = wanted

\* helpers: the possible results of find_matching_payment
find_matching_payment(table, invoice_number, currency) ==
    {IF r # NoEvent /\ PyRefEq(r.payment_reference, invoice_number) THEN r ELSE NoEvent :
        r \in UnreconciledPaymentsLimitOne(table, currency)}

\* helpers: the possible results of find_matching_invoice
find_matching_invoice(table, payment_reference, currency) ==
    {IF r # NoEvent /\ PyRefEq(r.invoice_number, payment_reference) THEN r ELSE NoEvent :
        r \in UnreconciledInvoicesLimitOne(table, currency)}

(***************************************************************************)
(* SpecLookup: the lookups on tables drawn from bounded sets               *)
(***************************************************************************)

LookupIds == {1, 2, 3}

LookupStates == {"MAPPED", "POSTED_ONCHAIN"}

LookupRefs == {"INV-001", "INV-002"}

\* the arguments of the lookups; the rows vary around them
QueryReference == "INV-001"

QueryCurrency == "USD"

QueryState == "MAPPED"

\* a row that may already carry a reconciliation_match_id
LookupRow(id, kind, currency, state, ref, matched) ==
    [MatcherEvent(id, kind, 100000, currency, ref)
        EXCEPT !.state = state, !.match = IF matched THEN 9 ELSE NoId]

LookupAttributes ==
    [kind : EventKind, currency : Currencies, state : LookupStates,
     ref : LookupRefs, matched : BOOLEAN]

InitLookup ==
    /\ \E a \in [LookupIds -> LookupAttributes] :
          events = [i \in LookupIds |->
                       LookupRow(i, a[i].kind, a[i].currency, a[i].state, a[i].ref,
                                 a[i].matched)]
    /\ MatcherIdle
    /\ LookupIdle
    /\ EngineIdle
    /\ AgentIdle

Call(fn, state) ==
    [fn |-> fn, reference |-> QueryReference, state |-> state, currency |-> QueryCurrency]

LookupPayment ==
    /\ l_call = NoCall
    /\ l_call' = Call("find_payment_by_reference", QueryState)
    /\ l_result' \in find_payment_by_reference(events, QueryReference, QueryState,
                                               QueryCurrency)
    /\ UNCHANGED <<matcherVars, events, engineVars, agentVars>>

LookupInvoice ==
    /\ l_call = NoCall
    /\ l_call' = Call("find_invoice_by_number", QueryState)
    /\ l_result' \in find_invoice_by_number(events, QueryReference, QueryState,
                                            QueryCurrency)
    /\ UNCHANGED <<matcherVars, events, engineVars, agentVars>>

LookupMatchingPayment ==
    /\ l_call = NoCall
    /\ l_call' = Call("find_matching_payment", "POSTED_ONCHAIN")
    /\ l_result' \in find_matching_payment(events, QueryReference, QueryCurrency)
    /\ UNCHANGED <<matcherVars, events, engineVars, agentVars>>

LookupMatchingInvoice ==
    /\ l_call = NoCall
    /\ l_call' = Call("find_matching_invoice", "POSTED_ONCHAIN")
    /\ l_result' \in find_matching_invoice(events, QueryReference, QueryCurrency)
    /\ UNCHANGED <<matcherVars, events, engineVars, agentVars>>

NextLookup ==
    \/ LookupPayment
    \/ LookupInvoice
    \/ LookupMatchingPayment
    \/ LookupMatchingInvoice

SpecLookup == InitLookup /\ [][NextLookup]_vars

(***************************************************************************)
(* Repository: batch fetch, pair updates, attempt stamp, audit log         *)
(***************************************************************************)

\* WHERE processing_state = 'MAPPED' AND event_kind IN (...) AND match id IS NULL
UnreconciledMapped(table) ==
    {r \in Rows(table) :
        /\ r.state = "MAPPED"
        /\ r.event_kind \in {"INVOICE_RECEIVED", "PAYMENT_SENT"}
        /\ r.match = NoId}

\* ORDER BY recorded_at ASC LIMIT $1
OldestFirst(rows, limit) ==
    {r \in rows : Cardinality({q \in rows : q.recorded_at < r.recorded_at}) < limit}

\* the event_ids of rows in ascending recorded_at
AscendingIds(rows) ==
    CHOOSE s \in [1 .. Cardinality(rows) -> {r.event_id : r \in rows}] :
        \A i, j \in 1 .. Cardinality(rows) :
            i < j => \E a, b \in rows :
                        /\ a.event_id = s[i] /\ b.event_id = s[j]
                        /\ a.recorded_at < b.recorded_at

\* the rows get_unreconciled_mapped_events selects, as event_ids in order
get_unreconciled_mapped_events(table, limit) ==
    AscendingIds(OldestFirst(UnreconciledMapped(table), limit))

SeqToSet(s) == {s[i] : i \in DOMAIN s}

BatchLockConflictIgnored(t, ids) == FALSE

\* FOR UPDATE NOWAIT: the query fails when another transaction holds the row
\* lock of a selected row
BatchLockConflict(t, ids) ==
    \E u \in DOMAIN held : u # t /\ held[u] \cap ids # {}

RowLockedByOtherNeverWaits(t, id) == FALSE

\* UPDATE ... WHERE event_id = $1 waits while another transaction holds the row
RowLockedByOther(t, id) ==
    \E u \in DOMAIN held : u # t /\ id \in held[u]

\* SET processing_state = 'RECONCILED', match id, notes || match_info
ReconciledRow(row, other_id, match_info) ==
    [row EXCEPT !.state = "RECONCILED", !.match = other_id,
                !.notes = Append(@, match_info)]

\* SET processing_state = 'FLAGGED_FOR_REVIEW', match id, notes || discrepancy
FlaggedRow(row, other_id, discrepancy) ==
    [row EXCEPT !.state = "FLAGGED_FOR_REVIEW", !.match = other_id,
                !.notes = Append(@, discrepancy)]

\* SET metadata.reconciliation_attempted_at = $2
AttemptedRow(row, attempted_at) == [row EXCEPT !.attempted_at = attempted_at]

\* INSERT INTO audit_logs (action, entity_id, ..., metadata)
AuditEntry(action, entity_id, metadata) ==
    [action |-> action, entity_id |-> entity_id, match_type |-> metadata]

CommittedAfterUpdateAutocommit(table, id, row) == [table EXCEPT ![id] = row]

\* async with db.transaction(): a statement's write reaches the committed
\* table only when the transaction commits
CommittedAfterUpdate(table, id, row) == table

(***************************************************************************)
(* Spec: the repository under the trigger dispatcher.  The coordinator     *)
(* (handle_reconciliation_logic) and the two trigger paths are not in the  *)
(* source tree; they follow sections 4.3 and 4.4 of the specification and  *)
(* the calls test_reconciliation_agent.py expects.  Transactions are       *)
(* PostgreSQL READ COMMITTED: a statement reads the committed rows and the  *)
(* transaction's own writes, writes take the row lock until the            *)
(* transaction ends.                                                       *)
(***************************************************************************)

MaxAttempts == 2

MaxBatchLimit == 2

EngineIds == {1, 2, 3}

OnDemandTasks == {"od1", "od2"}

SweepTask == "sweep"

Tasks == OnDemandTasks \cup {SweepTask}

NoWrites == [i \in EngineIds |-> NoEvent]

NoOutcome == [result |-> "none", at |-> "none", attempt |-> 0]

\* how attempt number n of a task ended, and at which statement
Outcome(result, at, n) == [result |-> result, at |-> at, attempt |-> n]

NoBefore == [event |-> NoEvent, counterpart |-> NoEvent]

EngineRow(id, kind, amount, state, ref) ==
    [MatcherEvent(id, kind, amount, "USD", ref) EXCEPT !.state = state]

\* event 1 is an eligible invoice; event 2 is an invoice or a payment with
\* its reference, event 3 a payment or an issued invoice that may be PENDING
Init ==
    /\ \E k2 \in {"INVOICE_RECEIVED", "PAYMENT_SENT"}, a2 \in {100000, 95000},
          k3 \in {"PAYMENT_SENT", "INVOICE_SENT"}, r3 \in {"INV-001", "INV-002"},
          s3 \in {"MAPPED", "PENDING"} :
          events = [i \in EngineIds |->
                       CASE i = 1 -> EngineRow(1, "INVOICE_RECEIVED", 100000, "MAPPED", "INV-001")
                         [] i = 2 -> EngineRow(2, k2, a2, "MAPPED", "INV-001")
                         [] OTHER -> EngineRow(3, k3, 100000, s3, r3)]
    /\ audit = <<>>
    /\ pc = [t \in Tasks |-> "idle"]
    /\ cur = [t \in Tasks |-> NoId]
    /\ batch = [t \in Tasks |-> <<>>]
    /\ cp = [t \in Tasks |-> NoEvent]
    /\ mr = [t \in Tasks |-> NoResult]
    /\ writes = [t \in Tasks |-> NoWrites]
    /\ txaudit = [t \in Tasks |-> <<>>]
    /\ held = [t \in Tasks |-> {}]
    /\ outcome = [t \in Tasks |-> NoOutcome]
    /\ before = [t \in Tasks |-> NoBefore]
    /\ nwrites = [t \in Tasks |-> 0]
    /\ nAttempts = 0
    /\ MatcherIdle
    /\ LookupIdle
    /\ AgentIdle

ViewOfCommitted(t) == events

\* what a statement of t's transaction reads
View(t) ==
    [i \in DOMAIN events |-> IF writes[t][i] # NoEvent THEN writes[t][i] ELSE events[i]]

\* SELECT ... WHERE event_id = $1 FOR UPDATE NOWAIT on the triggering row
RowLockConflict(t, id) == RowLockedByOther(t, id)

\* the on-demand path takes the row lock of the signalled event
OnDemandLock(t, e) ==
    /\ pc[t] = "idle" /\ nAttempts < MaxAttempts
    /\ ~RowLockConflict(t, e)
    /\ held' = [held EXCEPT ![t] = {e}]
    /\ cur' = [cur EXCEPT ![t] = e]
    /\ pc' = [pc EXCEPT ![t] = "coord"]
    /\ outcome' = [outcome EXCEPT ![t] = Outcome("running", "lock", nAttempts + 1)]
    /\ nwrites' = [nwrites EXCEPT ![t] = 0]
    /\ cp' = [cp EXCEPT ![t] = NoEvent]
    /\ mr' = [mr EXCEPT ![t] = NoResult]
    /\ before' = [before EXCEPT ![t] = NoBefore]
    /\ nAttempts' = nAttempts + 1
    /\ UNCHANGED <<events, audit, batch, writes, txaudit, matcherVars, lookupVars, agentVars>>

\* the row is locked elsewhere: log and return, nothing is written
OnDemandLockUnavailable(t, e) ==
    /\ pc[t] = "idle" /\ nAttempts < MaxAttempts
    /\ RowLockConflict(t, e)
    /\ cur' = [cur EXCEPT ![t] = e]
    /\ outcome' = [outcome EXCEPT ![t] = Outcome("LockUnavailable", "lock", nAttempts + 1)]
    /\ nwrites' = [nwrites EXCEPT ![t] = 0]
    /\ cp' = [cp EXCEPT ![t] = NoEvent]
    /\ mr' = [mr EXCEPT ![t] = NoResult]
    /\ before' = [before EXCEPT ![t] = NoBefore]
    /\ nAttempts' = nAttempts + 1
    /\ UNCHANGED <<events, audit, pc, batch, writes, txaudit, held, matcherVars, lookupVars, agentVars>>

\* the sweep finds nothing to do: commit and return
SweepEmptyAs(limit, n) ==
    LET t == SweepTask IN
    /\ pc[t] = "idle"
    /\ get_unreconciled_mapped_events(events, limit) = <<>>
    /\ outcome' = [outcome EXCEPT ![t] = Outcome("empty", "lock", n)]
    /\ cur' = [cur EXCEPT ![t] = NoId]
    /\ nwrites' = [nwrites EXCEPT ![t] = 0]
    /\ cp' = [cp EXCEPT ![t] = NoEvent]
    /\ mr' = [mr EXCEPT ![t] = NoResult]
    /\ before' = [before EXCEPT ![t] = NoBefore]
    /\ nAttempts' = n
    /\ UNCHANGED <<events, audit, pc, batch, writes, txaudit, held, matcherVars, lookupVars, agentVars>>

SweepEmpty(limit) == nAttempts < MaxAttempts /\ SweepEmptyAs(limit, nAttempts + 1)

\* the sweep locks its whole batch up front
SweepLockAs(limit, n) ==
    LET t == SweepTask
        ids == get_unreconciled_mapped_events(events, limit) IN
    /\ pc[t] = "idle"
    /\ ids # <<>>
    /\ ~BatchLockConflict(t, SeqToSet(ids))
    /\ held' = [held EXCEPT ![t] = SeqToSet(ids)]
    /\ cur' = [cur EXCEPT ![t] = Head(ids)]
    /\ batch' = [batch EXCEPT ![t] = Tail(ids)]
    /\ pc' = [pc EXCEPT ![t] = "coord"]
    /\ outcome' = [outcome EXCEPT ![t] = Outcome("running", "lock", n)]
    /\ nwrites' = [nwrites EXCEPT ![t] = 0]
    /\ cp' = [cp EXCEPT ![t] = NoEvent]
    /\ mr' = [mr EXCEPT ![t] = NoResult]
    /\ before' = [before EXCEPT ![t] = NoBefore]
    /\ nAttempts' = n
    /\ UNCHANGED <<events, audit, writes, txaudit, matcherVars, lookupVars, agentVars>>

SweepLock(limit) == nAttempts < MaxAttempts /\ SweepLockAs(limit, nAttempts + 1)

\* a row of the batch is locked elsewhere: log and return
SweepLockUnavailable(limit) ==
    LET t == SweepTask
        ids == get_unreconciled_mapped_events(events, limit) IN
    /\ pc[t] = "idle" /\ nAttempts < MaxAttempts
    /\ ids # <<>>
    /\ BatchLockConflict(t, SeqToSet(ids))
    /\ outcome' = [outcome EXCEPT ![t] = Outcome("LockUnavailable", "lock", nAttempts + 1)]
    /\ cur' = [cur EXCEPT ![t] = Head(ids)]
    /\ nwrites' = [nwrites EXCEPT ![t] = 0]
    /\ cp' = [cp EXCEPT ![t] = NoEvent]
    /\ mr' = [mr EXCEPT ![t] = NoResult]
    /\ before' = [before EXCEPT ![t] = NoBefore]
    /\ nAttempts' = nAttempts + 1
    /\ UNCHANGED <<events, audit, pc, batch, writes, txaudit, held, matcherVars, lookupVars, agentVars>>

\* coordinator step 1: only a MAPPED event without a match id is processed
Eligible(ev) == ev.state = "MAPPED" /\ ev.match = NoId

\* coordinator step 2: an invoice looks for a payment, a payment for an invoice
FindCounterpart(table, ev) ==
    IF ev.event_kind \in InvoiceKinds
    THEN find_payment_by_reference(table, ev.invoice_number, "MAPPED", ev.currency)
    ELSE find_invoice_by_number(table, ev.payment_reference, "MAPPED", ev.currency)

IsPairMatch(r) == r.type \in {"PRIMARY_MATCH", "PARTIAL_MATCH"}

\* the note the pair update appends: the match for RECONCILED, the
\* discrepancy for FLAGGED_FOR_REVIEW
MatchInfo(r) ==
    [type |-> r.type, invoice_id |-> r.invoice_id, payment_id |-> r.payment_id,
     difference |-> r.discrepancy.difference]

\* the row one statement of update_both_to_reconciled / flag_both_for_review writes
PairRow(row, other_id, r) ==
    IF r.type = "PRIMARY_MATCH"
    THEN ReconciledRow(row, other_id, MatchInfo(r))
    ELSE FlaggedRow(row, other_id, MatchInfo(r))

AuditAction(r) ==
    IF r.type = "PRIMARY_MATCH" THEN "RECONCILE_SUCCESS" ELSE "RECONCILE_FAIL_PARTIAL"

\* step 1 finds the event not eligible: return without a write
CoordNotEligible(t) ==
    /\ pc[t] = "coord"
    /\ ~Eligible(View(t)[cur[t]])
    /\ pc' = [pc EXCEPT ![t] = "next"]
    /\ cp' = [cp EXCEPT ![t] = NoEvent]
    /\ mr' = [mr EXCEPT ![t] = NoResult]
    /\ UNCHANGED <<events, audit, cur, batch, writes, txaudit, held, outcome, before,
                   nwrites, nAttempts, matcherVars, lookupVars, agentVars>>

\* steps 2 and 3: look the counterpart up and evaluate the match
CoordLookup(t) ==
    LET ev == View(t)[cur[t]] IN
    /\ pc[t] = "coord"
    /\ Eligible(ev)
    /\ \E c \in FindCounterpart(View(t), ev) :
          LET r == evaluate_match(ev, c) IN
          /\ cp' = [cp EXCEPT ![t] = c]
          /\ mr' = [mr EXCEPT ![t] = r]
          /\ pc' = [pc EXCEPT ![t] = IF IsPairMatch(r) THEN "update1" ELSE "attempt"]
    /\ UNCHANGED <<events, audit, cur, batch, writes, txaudit, held, outcome, before,
                   nwrites, nAttempts, matcherVars, lookupVars, agentVars>>

\* the first UPDATE of the pair update: the triggering event's row; before
\* keeps the committed rows of the pair as they are when the call starts
UpdateFirst(t) ==
    LET id == cur[t]
        row == PairRow(View(t)[id], cp[t].event_id, mr[t]) IN
    /\ pc[t] = "update1"
    /\ ~RowLockedByOther(t, id)
    /\ writes' = [writes EXCEPT ![t][id] = row]
    /\ events' = CommittedAfterUpdate(events, id, row)
    /\ held' = [held EXCEPT ![t] = @ \cup {id}]
    /\ nwrites' = [nwrites EXCEPT ![t] = @ + 1]
    /\ pc' = [pc EXCEPT ![t] = "update2"]
    /\ before' = [before EXCEPT ![t] = [event |-> events[id],
                                         counterpart |-> events[cp[t].event_id]]]
    /\ UNCHANGED <<audit, cur, batch, cp, mr, txaudit, outcome, nAttempts,
                   matcherVars, lookupVars, agentVars>>

\* the second UPDATE of the pair update: the counterpart's row, as it is now
UpdateSecond(t) ==
    LET id == cp[t].event_id
        row == PairRow(View(t)[id], cur[t], mr[t]) IN
    /\ pc[t] = "update2"
    /\ ~RowLockedByOther(t, id)
    /\ writes' = [writes EXCEPT ![t][id] = row]
    /\ events' = CommittedAfterUpdate(events, id, row)
    /\ held' = [held EXCEPT ![t] = @ \cup {id}]
    /\ nwrites' = [nwrites EXCEPT ![t] = @ + 1]
    /\ pc' = [pc EXCEPT ![t] = "audit"]
    /\ UNCHANGED <<audit, cur, batch, cp, mr, txaudit, outcome, before, nAttempts,
                   matcherVars, lookupVars, agentVars>>

\* create_audit_log after the pair update
WriteAudit(t) ==
    /\ pc[t] = "audit"
    /\ txaudit' = [txaudit EXCEPT ![t] =
                      Append(@, AuditEntry(AuditAction(mr[t]), cur[t], mr[t].type))]
    /\ nwrites' = [nwrites EXCEPT ![t] = @ + 1]
    /\ pc' = [pc EXCEPT ![t] = "next"]
    /\ UNCHANGED <<events, audit, cur, batch, cp, mr, writes, held, outcome, before,
                   nAttempts, matcherVars, lookupVars, agentVars>>

\* NO_MATCH: update_reconciliation_attempt on the triggering event
RecordAttempt(t) ==
    LET id == cur[t]
        row == AttemptedRow(View(t)[id], nAttempts) IN
    /\ pc[t] = "attempt"
    /\ ~RowLockedByOther(t, id)
    /\ writes' = [writes EXCEPT ![t][id] = row]
    /\ events' = CommittedAfterUpdate(events, id, row)
    /\ held' = [held EXCEPT ![t] = @ \cup {id}]
    /\ nwrites' = [nwrites EXCEPT ![t] = @ + 1]
    /\ pc' = [pc EXCEPT ![t] = "next"]
    /\ UNCHANGED <<audit, cur, batch, cp, mr, txaudit, outcome, before, nAttempts,
                   matcherVars, lookupVars, agentVars>>

\* the sweep runs the coordinator for the next event of its batch
SweepAdvance ==
    LET t == SweepTask IN
    /\ pc[t] = "next"
    /\ batch[t] # <<>>
    /\ cur' = [cur EXCEPT ![t] = Head(batch[t])]
    /\ batch' = [batch EXCEPT ![t] = Tail(@)]
    /\ pc' = [pc EXCEPT ![t] = "coord"]
    /\ cp' = [cp EXCEPT ![t] = NoEvent]
    /\ mr' = [mr EXCEPT ![t] = NoResult]
    /\ UNCHANGED <<events, audit, writes, txaudit, held, outcome, before, nwrites,
                   nAttempts, matcherVars, lookupVars, agentVars>>

\* COMMIT: the transaction's writes and audit entries become visible, its
\* row locks are released
Commit(t) ==
    /\ pc[t] = "next"
    /\ batch[t] = <<>>
    /\ events' = View(t)
    /\ audit' = audit \o txaudit[t]
    /\ writes' = [writes EXCEPT ![t] = NoWrites]
    /\ txaudit' = [txaudit EXCEPT ![t] = <<>>]
    /\ held' = [held EXCEPT ![t] = {}]
    /\ pc' = [pc EXCEPT ![t] = "idle"]
    /\ outcome' = [outcome EXCEPT ![t] = Outcome("committed", "commit", @.attempt)]
    /\ UNCHANGED <<cur, batch, cp, mr, before, nwrites, nAttempts, matcherVars, lookupVars, agentVars>>

\* a store error at the statement the task stands at: the transaction is
\* rolled back, its row locks are released
StoreError(t) ==
    /\ pc[t] # "idle"
    /\ writes' = [writes EXCEPT ![t] = NoWrites]
    /\ txaudit' = [txaudit EXCEPT ![t] = <<>>]
    /\ held' = [held EXCEPT ![t] = {}]
    /\ batch' = [batch EXCEPT ![t] = <<>>]
    /\ pc' = [pc EXCEPT ![t] = "idle"]
    /\ outcome' = [outcome EXCEPT ![t] = Outcome("StoreError", pc[t], @.attempt)]
    /\ UNCHANGED <<events, audit, cur, cp, mr, before, nwrites, nAttempts, matcherVars,
                   lookupVars, agentVars>>

Next ==
    \/ \E t \in OnDemandTasks, e \in EngineIds : OnDemandLock(t, e)
    \/ \E t \in OnDemandTasks, e \in EngineIds : OnDemandLockUnavailable(t, e)
    \/ \E limit \in 1 .. MaxBatchLimit : SweepEmpty(limit)
    \/ \E limit \in 1 .. MaxBatchLimit : SweepLock(limit)
    \/ \E limit \in 1 .. MaxBatchLimit : SweepLockUnavailable(limit)
    \/ \E t \in Tasks : CoordNotEligible(t)
    \/ \E t \in Tasks : CoordLookup(t)
    \/ \E t \in Tasks : UpdateFirst(t)
    \/ \E t \in Tasks : UpdateSecond(t)
    \/ \E t \in Tasks : WriteAudit(t)
    \/ \E t \in Tasks : RecordAttempt(t)
    \/ SweepAdvance
    \/ \E t \in Tasks : Commit(t)
    \/ \E t \in Tasks : StoreError(t)

Spec == Init /\ [][Next]_vars

(***************************************************************************)
(* SpecSweep: the periodic sweep alone, every on-demand signal missed, no  *)
(* store error, one cycle after the other for ever.  The cycle counter     *)
(* that stamps reconciliation_attempted_at stops counting at MaxAttempts.  *)
(***************************************************************************)

\* the number of the next cycle, held at MaxAttempts once it is reached
NextCycle == IF nAttempts < MaxAttempts THEN nAttempts + 1 ELSE MaxAttempts

\* event 1 is the oldest and may have no counterpart; events 2 and 3 vary
InitSweep ==
    /\ \E k1 \in {"INVOICE_RECEIVED", "PAYMENT_SENT"}, r1 \in {"INV-001", "INV-002"},
          k2 \in {"INVOICE_RECEIVED", "PAYMENT_SENT"}, a2 \in {100000, 95000},
          k3 \in {"INVOICE_RECEIVED", "PAYMENT_SENT"}, r3 \in {"INV-001", "INV-002"},
          s3 \in {"MAPPED", "PENDING"} :
          events = [i \in EngineIds |->
                       CASE i = 1 -> EngineRow(1, k1, 100000, "MAPPED", r1)
                         [] i = 2 -> EngineRow(2, k2, a2, "MAPPED", "INV-001")
                         [] OTHER -> EngineRow(3, k3, 100000, s3, r3)]
    /\ audit = <<>>
    /\ pc = [t \in Tasks |-> "idle"]
    /\ cur = [t \in Tasks |-> NoId]
    /\ batch = [t \in Tasks |-> <<>>]
    /\ cp = [t \in Tasks |-> NoEvent]
    /\ mr = [t \in Tasks |-> NoResult]
    /\ writes = [t \in Tasks |-> NoWrites]
    /\ txaudit = [t \in Tasks |-> <<>>]
    /\ held = [t \in Tasks |-> {}]
    /\ outcome = [t \in Tasks |-> NoOutcome]
    /\ before = [t \in Tasks |-> NoBefore]
    /\ nwrites = [t \in Tasks |-> 0]
    /\ nAttempts = 0
    /\ MatcherIdle
    /\ LookupIdle
    /\ AgentIdle

\* a cycle of the sweep that finds nothing to do
PeriodicSweepEmpty(limit) == held[SweepTask] = {} /\ SweepEmptyAs(limit, NextCycle)

\* a cycle of the sweep that locks its batch; nobody else holds a lock
PeriodicSweepLock(limit) == held[SweepTask] = {} /\ SweepLockAs(limit, NextCycle)

NextSweep ==
    \/ \E limit \in 1 .. MaxBatchLimit : PeriodicSweepEmpty(limit)
    \/ \E limit \in 1 .. MaxBatchLimit : PeriodicSweepLock(limit)
    \/ CoordNotEligible(SweepTask)
    \/ CoordLookup(SweepTask)
    \/ UpdateFirst(SweepTask)
    \/ UpdateSecond(SweepTask)
    \/ WriteAudit(SweepTask)
    \/ RecordAttempt(SweepTask)
    \/ SweepAdvance
    \/ Commit(SweepTask)

SpecSweep == InitSweep /\ [][NextSweep]_vars /\ WF_vars(NextSweep)

(***************************************************************************)
(* SpecVerify: the verification route beside the engine.  verify_event     *)
(* sets the event to MAPPED and signals the agent; the attempts the signal *)
(* starts are the on-demand attempts of one task.                          *)
(***************************************************************************)

\* UPDATE business_events SET processing_state = $1 WHERE event_id = $2
set_event_status(table, event_id, status) ==
    [table EXCEPT ![event_id] = [@ EXCEPT !.state = status]]

\* the connection of the route, which holds no lock of its own
VerifyConnection == "api"

\* the task that runs the attempts the route signals
VerifyTask == "od1"

\* POST /verify/{event_id}: the UPDATE waits for the row lock and commits on
\* its own; the signal to the agent lets an on-demand attempt start
verify_event(e) ==
    /\ ~RowLockedByOther(VerifyConnection, e)
    /\ events' = set_event_status(events, e, "MAPPED")
    /\ UNCHANGED <<audit, taskVars, nAttempts, matcherVars, lookupVars, agentVars>>

NextVerify ==
    \/ \E e \in EngineIds : verify_event(e)
    \/ \E e \in EngineIds : OnDemandLock(VerifyTask, e)
    \/ CoordNotEligible(VerifyTask)
    \/ CoordLookup(VerifyTask)
    \/ UpdateFirst(VerifyTask)
    \/ UpdateSecond(VerifyTask)
    \/ WriteAudit(VerifyTask)
    \/ RecordAttempt(VerifyTask)
    \/ Commit(VerifyTask)

SpecVerify == Init /\ [][NextVerify]_vars

(***************************************************************************)
(* SpecAgent: process_reconciliation over the supabase helpers.  The       *)
(* supabase client is synchronous, so a request is handled to its end      *)
(* before the next one is received; every store call commits on its own.   *)
(***************************************************************************)

MaxRequests == 2

AgentIds == {1, 2, 3}

\* BusinessEvent(... processing={"state": "MAPPED"} ...): every other field
\* is taken from the dict
reconstruct_business_event(event_dict) == [event_dict EXCEPT !.state = "MAPPED"]

\* the reconciliation_data of a PRIMARY_MATCH (amount_difference 0) and of a
\* PARTIAL_MATCH (abs of the discrepancy's difference)
ReconciliationData(r) ==
    [invoice_event_id |-> r.invoice_id, payment_event_id |-> r.payment_id,
     match_type |-> r.type, confidence |-> r.confidence,
     amount_difference |-> IF r.type = "PRIMARY_MATCH" THEN 0
                           ELSE Abs(r.discrepancy.difference)]

\* the table after the insert; the store generates the reconciliation_id
insert_reconciliation(table, reconciliation_data) ==
    Append(table, [reconciliation_id |-> Len(table) + 1, data |-> reconciliation_data])

ReconciliationNotes(reconciliation_id, r) ==
    [reconciliation_id |-> reconciliation_id, match_type |-> r.type,
     discrepancy |-> r.discrepancy]

\* one UPDATE by event_id: state, match id and notes are overwritten
update_event_reconciliation_status(table, event_id, status, matched_event_id, notes) ==
    [table EXCEPT ![event_id] =
        [@ EXCEPT !.state = status, !.match = matched_event_id, !.notes = <<notes>>]]

\* the reference the request's event is looked up by
AgentReference(event_dict) ==
    IF event_dict.event_kind \in InvoiceKinds
    THEN event_dict.invoice_number ELSE event_dict.payment_reference

\* the helper the request's event kind selects
AgentCounterparts(table, event_dict) ==
    IF event_dict.event_kind \in InvoiceKinds
    THEN find_matching_payment(table, event_dict.invoice_number, event_dict.currency)
    ELSE find_matching_invoice(table, event_dict.payment_reference, event_dict.currency)

Unreconciled(error) == AgentResult(TRUE, "UNRECONCILED", NoId, error)

InitAgent ==
    /\ \E a2 \in {100000, 99900, 95000}, k3 \in {"PAYMENT_SENT", "INVOICE_SENT"},
          r3 \in {"INV-001", "INV-002", Empty}, s3 \in {"POSTED_ONCHAIN", "MAPPED"} :
          events = [i \in AgentIds |->
                       CASE i = 1 -> EngineRow(1, "INVOICE_RECEIVED", 100000,
                                               "POSTED_ONCHAIN", "INV-001")
                         [] i = 2 -> EngineRow(2, "PAYMENT_SENT", a2, "POSTED_ONCHAIN",
                                               "INV-001")
                         [] OTHER -> EngineRow(3, k3, 100000, s3, r3)]
    /\ MatcherIdle
    /\ LookupIdle
    /\ EngineIdle
    /\ AgentIdle

\* handle_reconciliation_request receives a request carrying the event's row
ReceiveRequest(e) ==
    /\ a_pc = "idle" /\ nRequests < MaxRequests
    /\ a_event' = events[e]
    /\ a_pc' = "lookup"
    /\ a_cp' = NoEvent /\ a_mr' = NoResult /\ a_result' = NoAgentResult
    /\ nRequests' = nRequests + 1
    /\ UNCHANGED <<events, reconciliations, responses, matcherVars, lookupVars, engineVars>>

\* process_reconciliation up to the MatchResult: reference check, counterpart
\* lookup, evaluate_match on the reconstructed events
ProcessLookup ==
    /\ a_pc = "lookup"
    /\ IF Falsy(AgentReference(a_event))
       THEN /\ a_result' = Unreconciled("no reference")
            /\ a_pc' = "respond"
            /\ UNCHANGED <<a_cp, a_mr>>
       ELSE \E c \in AgentCounterparts(events, a_event) :
               LET r == IF c = NoEvent THEN NoResult
                        ELSE evaluate_match(reconstruct_business_event(a_event),
                                            reconstruct_business_event(c)) IN
               /\ a_cp' = c
               /\ a_mr' = r
               /\ IF IsPairMatch(r)
                  THEN a_pc' = "insert" /\ UNCHANGED a_result
                  ELSE a_pc' = "respond" /\ a_result' = Unreconciled("NONE")
    /\ UNCHANGED <<events, a_event, reconciliations, responses, nRequests, matcherVars,
                   lookupVars, engineVars>>

\* insert_reconciliation(client, reconciliation_data)
InsertReconciliation ==
    /\ a_pc = "insert"
    /\ reconciliations' = insert_reconciliation(reconciliations, ReconciliationData(a_mr))
    /\ a_pc' = "update_invoice"
    /\ UNCHANGED <<events, a_event, a_cp, a_mr, a_result, responses, nRequests,
                   matcherVars, lookupVars, engineVars>>

\* the first update_event_reconciliation_status: the invoice of the match
UpdateInvoiceStatus ==
    /\ a_pc = "update_invoice"
    /\ events' = update_event_reconciliation_status(
                     events, a_mr.invoice_id, "POSTED_ONCHAIN", a_mr.payment_id,
                     ReconciliationNotes(Len(reconciliations), a_mr))
    /\ a_pc' = "update_payment"
    /\ UNCHANGED <<a_event, a_cp, a_mr, a_result, reconciliations, responses, nRequests,
                   matcherVars, lookupVars, engineVars>>

\* the second update_event_reconciliation_status: the payment of the match
UpdatePaymentStatus ==
    /\ a_pc = "update_payment"
    /\ events' = update_event_reconciliation_status(
                     events, a_mr.payment_id, "POSTED_ONCHAIN", a_mr.invoice_id,
                     ReconciliationNotes(Len(reconciliations), a_mr))
    /\ a_result' = AgentResult(TRUE,
                               IF a_mr.type = "PRIMARY_MATCH" THEN "RECONCILED"
                               ELSE "PARTIAL",
                               a_cp.event_id, "NONE")
    /\ a_pc' = "respond"
    /\ UNCHANGED <<a_event, a_cp, a_mr, reconciliations, responses, nRequests,
                   matcherVars, lookupVars, engineVars>>

ProcessStoreErrorPropagates ==
    /\ a_pc \in {"lookup", "insert", "update_invoice", "update_payment"}
    /\ a_result' = AgentResult(FALSE, "UNRECONCILED", NoId, a_pc)
    /\ a_pc' = "idle"
    /\ UNCHANGED <<events, a_event, a_cp, a_mr, reconciliations, responses, nRequests,
                   matcherVars, lookupVars, engineVars>>

\* a store call raises: except Exception returns success False, what was
\* written before stays written
ProcessStoreError ==
    /\ a_pc \in {"lookup", "insert", "update_invoice", "update_payment"}
    /\ a_result' = AgentResult(FALSE, "UNRECONCILED", NoId, a_pc)
    /\ a_pc' = "respond"
    /\ UNCHANGED <<events, a_event, a_cp, a_mr, reconciliations, responses, nRequests,
                   matcherVars, lookupVars, engineVars>>

\* ctx.send(sender, ReconciliationResponse(...))
SendResponse ==
    /\ a_pc = "respond"
    /\ responses' = Append(responses, [event_id |-> a_event.event_id, result |-> a_result])
    /\ a_pc' = "idle"
    /\ UNCHANGED <<events, a_event, a_cp, a_mr, a_result, reconciliations, nRequests,
                   matcherVars, lookupVars, engineVars>>

NextAgent ==
    \/ \E e \in AgentIds : ReceiveRequest(e)
    \/ ProcessLookup
    \/ InsertReconciliation
    \/ UpdateInvoiceStatus
    \/ UpdatePaymentStatus
    \/ ProcessStoreError
    \/ SendResponse

SpecAgent == InitAgent /\ [][NextAgent]_vars

(***************************************************************************)
(* Matcher claims (checked under SpecMatcher)                              *)
(***************************************************************************)

\* the call returned
Evaluated == m_result # NoResult

\* the arguments are an invoice and a payment, in either order
IsInvoicePaymentPair ==
    \/ m_event.event_kind \in InvoiceKinds /\ m_counterpart.event_kind = "PAYMENT_SENT"
    \/ m_event.event_kind = "PAYMENT_SENT" /\ m_counterpart.event_kind \in InvoiceKinds

InvoiceSide == IF m_event.event_kind \in InvoiceKinds THEN m_event ELSE m_counterpart

PaymentSide == IF m_event.event_kind \in InvoiceKinds THEN m_counterpart ELSE m_event

ReferencesEqualNonEmpty ==
    /\ InvoiceSide.invoice_number = PaymentSide.payment_reference
    /\ InvoiceSide.invoice_number \notin {Absent, Empty}

PairDiff == Abs(InvoiceSide.amount_minor - PaymentSide.amount_minor)

\* |invoice_amount - payment_amount| <= min(1% of invoice_amount, 500), in integers
DiffWithinTolerance ==
    PairDiff <= 500 /\ 100 * PairDiff <= InvoiceSide.amount_minor

IsPrimaryOfPair ==
    m_result = MatchResult("PRIMARY_MATCH", "1.0", InvoiceSide.event_id,
                           PaymentSide.event_id, NoDiscrepancy)

IsPartialOfPair ==
    m_result = MatchResult("PARTIAL_MATCH", "0.5", InvoiceSide.event_id,
                           PaymentSide.event_id,
                           Discrepancy("AMOUNT_MISMATCH", InvoiceSide.amount_minor,
                                       PaymentSide.amount_minor, PairDiff))

(* C7: for an invoice and a payment with equal non-empty references and     *)
(* |invoice_amount - payment_amount| <= min(1% of invoice_amount, 500),     *)
(* evaluate_match returns PRIMARY_MATCH with confidence 1.0, both ids set   *)
(* and no discrepancy; diff = tolerance is a PRIMARY_MATCH.                 *)
C7_PrimaryWithinTolerance ==
    (Evaluated /\ IsInvoicePaymentPair /\ ReferencesEqualNonEmpty /\ DiffWithinTolerance)
        => IsPrimaryOfPair

\* C7 holds whenever the triggering event is not an INVOICE_SENT (see C16)
C7_PrimaryUnlessInvoiceSentTriggers ==
    (Evaluated /\ IsInvoicePaymentPair /\ ReferencesEqualNonEmpty /\ DiffWithinTolerance
       /\ m_event.event_kind # "INVOICE_SENT")
        => IsPrimaryOfPair

\* the boundary diff = tolerance, on both branches of the min, is reached
C7_BoundaryReached ==
    /\ Evaluated /\ IsInvoicePaymentPair /\ ReferencesEqualNonEmpty
    /\ m_event.event_kind # "INVOICE_SENT"
    /\ \/ PairDiff = 500 /\ InvoiceSide.amount_minor >= 50000
       \/ PairDiff > 0 /\ 100 * PairDiff = InvoiceSide.amount_minor
    /\ IsPrimaryOfPair

(* C8: for an invoice and a payment with equal non-empty references and     *)
(* |invoice_amount - payment_amount| > min(1% of invoice_amount, 500),      *)
(* evaluate_match returns PARTIAL_MATCH with confidence 0.5 and an          *)
(* AMOUNT_MISMATCH discrepancy carrying the two amounts and their absolute  *)
(* difference.                                                              *)
C8_PartialBeyondTolerance ==
    (Evaluated /\ IsInvoicePaymentPair /\ ReferencesEqualNonEmpty /\ ~DiffWithinTolerance)
        => IsPartialOfPair

\* C8 holds whenever the triggering event is not an INVOICE_SENT (see C16)
C8_PartialUnlessInvoiceSentTriggers ==
    (Evaluated /\ IsInvoicePaymentPair /\ ReferencesEqualNonEmpty /\ ~DiffWithinTolerance
       /\ m_event.event_kind # "INVOICE_SENT")
        => IsPartialOfPair /\ m_result.discrepancy.difference >= 0

C8_PartialReached ==
    /\ Evaluated /\ IsInvoicePaymentPair /\ ReferencesEqualNonEmpty
    /\ PairDiff = 501 /\ InvoiceSide.amount_minor < PaymentSide.amount_minor
    /\ IsPartialOfPair

(* C9: evaluate_match(event, None) returns NO_MATCH with confidence 0.0     *)
(* for every event; every NO_MATCH result carries confidence 0.0, no ids    *)
(* and no discrepancy.                                                      *)
C9_NoMatchZeroConfidence ==
    /\ (Evaluated /\ m_counterpart = NoEvent) => m_result.type = "NO_MATCH"
    /\ (Evaluated /\ m_result.type = "NO_MATCH") =>
          /\ m_result.confidence = "0.0"
          /\ m_result.invoice_id = NoId
          /\ m_result.payment_id = NoId
          /\ m_result.discrepancy = NoDiscrepancy

\* what the code does return: NO_MATCH with every other field None
C9_NoMatchCarriesNothing ==
    /\ (Evaluated /\ m_counterpart = NoEvent) => m_result.type = "NO_MATCH"
    /\ (Evaluated /\ m_result.type = "NO_MATCH") => m_result = NoMatchResult

(* C10: when the invoice reference is empty or absent, the payment          *)
(* reference is empty or absent, or the two differ, evaluate_match returns  *)
(* NO_MATCH for all amounts, equal amounts included.                        *)
C10_ReferenceMismatchNoMatch ==
    (Evaluated /\ m_counterpart # NoEvent /\ ~ReferencesEqualNonEmpty)
        => m_result.type = "NO_MATCH"

\* equal amounts, both references empty strings: still NO_MATCH
C10_EmptyReferencesEqualAmounts ==
    /\ Evaluated /\ IsInvoicePaymentPair
    /\ InvoiceSide.invoice_number = Empty /\ PaymentSide.payment_reference = Empty
    /\ PairDiff = 0 /\ InvoiceSide.amount_minor > 0
    /\ m_result.type = "NO_MATCH"

(***************************************************************************)
(* Lookup claims (checked under SpecLookup)                                *)
(***************************************************************************)

\* the reference a returned row is selected by
ReferenceOf(row) ==
    IF row.event_kind = "PAYMENT_SENT" THEN row.payment_reference ELSE row.invoice_number

PaymentLookups == {"find_payment_by_reference", "find_matching_payment"}

(* C6: a counterpart lookup never returns an event whose                    *)
(* reconciliation_match_id is set, whose processing state is not the        *)
(* eligible state asked for, whose currency is not the one asked for, or    *)
(* whose reference is not the one asked for.                                *)
C6_LookupReturnsOnlyEligible ==
    l_result # NoEvent =>
        /\ l_result.match = NoId
        /\ l_result.state = l_call.state
        /\ l_result.currency = l_call.currency
        /\ ReferenceOf(l_result) = l_call.reference
        /\ l_result.event_kind = "PAYMENT_SENT" <=> l_call.fn \in PaymentLookups
        /\ events[l_result.event_id] = l_result

\* a row is returned while another row fits the query but is already matched
C6_ReturnedBesideMatchedRow ==
    /\ l_result # NoEvent
    /\ \E i \in DOMAIN events :
          /\ events[i].match # NoId
          /\ events[i].event_kind = l_result.event_kind
          /\ events[i].state = l_call.state
          /\ events[i].currency = l_call.currency
          /\ ReferenceOf(events[i]) = l_call.reference

(***************************************************************************)
(* Lookup claims, continued (checked under SpecLookup)                     *)
(***************************************************************************)

\* the rows the lookup called may return by the arguments of the call
Candidates ==
    {r \in Rows(events) :
        /\ r.match = NoId
        /\ r.state = l_call.state
        /\ r.currency = l_call.currency
        /\ ReferenceOf(r) = l_call.reference
        /\ IF l_call.fn \in PaymentLookups THEN r.event_kind = "PAYMENT_SENT"
           ELSE r.event_kind \in InvoiceKinds}

IsOldest(r, rows) == r \in rows /\ \A o \in rows : r.recorded_at <= o.recorded_at

\* every result the lookup called can return on the table
PossibleResults ==
    CASE l_call.fn = "find_payment_by_reference" ->
            find_payment_by_reference(events, l_call.reference, l_call.state, l_call.currency)
      [] l_call.fn = "find_invoice_by_number" ->
            find_invoice_by_number(events, l_call.reference, l_call.state, l_call.currency)
      [] l_call.fn = "find_matching_payment" ->
            find_matching_payment(events, l_call.reference, l_call.currency)
      [] l_call.fn = "find_matching_invoice" ->
            find_matching_invoice(events, l_call.reference, l_call.currency)

\* C14: when eligible counterparts exist for the reference and currency, the
\* lookup returns the one with the smallest recorded_at, and it can return
\* no other event on the same table.
C14_OldestCandidateReturned ==
    (l_call # NoCall /\ Candidates # {}) =>
        /\ IsOldest(l_result, Candidates)
        /\ PossibleResults = {l_result}

HelperLookups == {"find_matching_payment", "find_matching_invoice"}

\* C23: find_matching_payment and find_matching_invoice return one of the
\* unreconciled POSTED_ONCHAIN events of the other side with the reference
\* and currency asked for whenever the table holds one, and None only when it
\* holds none.
C23_HelperFindsExistingCounterpart ==
    l_call # NoCall /\ l_call.fn \in HelperLookups =>
        IF Candidates # {} THEN l_result \in Candidates ELSE l_result = NoEvent

(***************************************************************************)
(* Matcher claims, continued (checked under SpecMatcher)                   *)
(***************************************************************************)

\* the argument with its currency replaced; None stays None
WithCurrency(event, currency) ==
    IF event = NoEvent THEN NoEvent ELSE [event EXCEPT !.currency = currency]

\* C11: the MatchResult does not depend on the currency of either event:
\* the call with any other currencies in the two arguments returns the
\* result the call returned.
C11_CurrencyIndependent ==
    Evaluated =>
        \A c1, c2 \in Currencies :
            evaluate_match(WithCurrency(m_event, c1), WithCurrency(m_counterpart, c2))
                = m_result

\* C11 witness: an invoice and a payment with the same reference and amount
\* and different currencies came out as a PRIMARY_MATCH
C11_PrimaryAcrossCurrencies ==
    /\ Evaluated
    /\ m_event.event_kind = "INVOICE_RECEIVED"
    /\ m_counterpart.event_kind = "PAYMENT_SENT"
    /\ m_event.currency # m_counterpart.currency
    /\ ReferencesEqualNonEmpty
    /\ PairDiff = 0
    /\ IsPrimaryOfPair

(***************************************************************************)
(* C16 (checked under SpecMatcher)                                         *)
(***************************************************************************)

\* C16: evaluate_match with an INVOICE_SENT event and a PAYMENT_SENT
\* counterpart returns what it returns for the same event as
\* INVOICE_RECEIVED: invoice fields from the event, payment fields from the
\* counterpart.
C16_InvoiceSentLikeInvoiceReceived ==
    (Evaluated /\ m_event.event_kind = "INVOICE_SENT"
               /\ m_counterpart.event_kind = "PAYMENT_SENT") =>
        m_result = evaluate_match([m_event EXCEPT !.event_kind = "INVOICE_RECEIVED"],
                                  m_counterpart)

(***************************************************************************)
(* Matcher claims: symmetry and amounts (checked under SpecMatcher)        *)
(***************************************************************************)

\* C26: for an invoice and a payment evaluate_match returns the same result
\* whichever of the two is the triggering event, with invoice_id the
\* invoice's id and payment_id the payment's id whenever the ids are set.
C26_SymmetricInTrigger ==
    (Evaluated /\ IsInvoicePaymentPair) =>
        /\ evaluate_match(m_counterpart, m_event) = m_result
        /\ m_result.type # "NO_MATCH" =>
              /\ m_result.invoice_id = InvoiceSide.event_id
              /\ m_result.payment_id = PaymentSide.event_id

\* C26 holds for the pairs whose invoice is an INVOICE_RECEIVED (see C16)
C26_SymmetricForInvoiceReceived ==
    (Evaluated /\ IsInvoicePaymentPair /\ InvoiceSide.event_kind = "INVOICE_RECEIVED") =>
        /\ evaluate_match(m_counterpart, m_event) = m_result
        /\ m_result.type # "NO_MATCH" =>
              /\ m_result.invoice_id = InvoiceSide.event_id
              /\ m_result.payment_id = PaymentSide.event_id

\* C27: for an invoice and a payment with equal non-empty references and
\* equal amounts evaluate_match returns PRIMARY_MATCH, whatever the amount:
\* positive, zero or negative.  (Stated for the triggers the matcher reads
\* on the right side; an INVOICE_SENT trigger is C16.)
C27_EqualAmountsArePrimary ==
    (Evaluated /\ IsInvoicePaymentPair /\ ReferencesEqualNonEmpty /\ PairDiff = 0
       /\ m_event.event_kind # "INVOICE_SENT")
        => IsPrimaryOfPair

\* C27 holds for the amounts that are not negative
C27_EqualNonNegativeAmountsArePrimary ==
    (Evaluated /\ IsInvoicePaymentPair /\ ReferencesEqualNonEmpty /\ PairDiff = 0
       /\ m_event.event_kind # "INVOICE_SENT" /\ InvoiceSide.amount_minor >= 0)
        => IsPrimaryOfPair

(***************************************************************************)
(* Engine claims (checked under Spec)                                      *)
(***************************************************************************)

LockHolders(id) == {t \in Tasks : id \in held[t]}

\* the step in which task t observes the fail-fast lock failure
ObservesLockUnavailable(t) ==
    /\ pc[t] = "idle"
    /\ nAttempts' = nAttempts + 1
    /\ outcome'[t] = Outcome("LockUnavailable", "lock", nAttempts')

C2_MatchIdWrittenOnce ==
    [][\A e \in EngineIds :
          /\ events[e].match # NoId => events'[e].match = events[e].match
          /\ events[e].state \in {"RECONCILED", "FLAGGED_FOR_REVIEW"} =>
                events'[e].state = events[e].state]_vars

\* C3: in every committed state a match id points at an event that points
\* back, and both are in the same state, RECONCILED or FLAGGED_FOR_REVIEW.
C3_PairSymmetry ==
    \A a \in EngineIds :
        events[a].match # NoId =>
            LET b == events[a].match IN
            /\ events[b].match = a
            /\ events[b].state = events[a].state
            /\ events[a].state \in {"RECONCILED", "FLAGGED_FOR_REVIEW"}

\* the step in which task t fails between the two row updates
FailsBetweenUpdates(t) == pc[t] = "update2" /\ pc'[t] = "idle"

\* C4: a failure between the first and the second row update of the pair
\* update rolls the transaction back: the first update never reaches the
\* committed rows, and after the failure both rows are as before the call.
C4_RollbackBetweenUpdates ==
    /\ [](\A t \in Tasks : pc[t] = "update2" => events[cur[t]] = before[t].event)
    /\ [][\A t \in Tasks :
             /\ (pc[t] = "update1" /\ pc'[t] = "update2") => events' = events
             /\ FailsBetweenUpdates(t) =>
                   /\ events' = events /\ audit' = audit
                   /\ events'[cur[t]] = before[t].event
                   /\ writes'[t] = NoWrites /\ txaudit'[t] = <<>>
                   /\ held'[t] = {}]_vars

\* C4 witness: a pair update failed after its first row update
C4_FailedBetweenUpdates ==
    \E t \in Tasks :
        /\ outcome[t].result = "StoreError" /\ outcome[t].at = "update2"
        /\ IsPairMatch(mr[t])
        /\ nwrites[t] = 1
        /\ events[cur[t]] = before[t].event
        /\ events[cp[t].event_id] = before[t].counterpart


(***************************************************************************)
(* Engine claims, continued (checked under Spec)                           *)
(***************************************************************************)

\* the step in which task t records a NO_MATCH attempt
RecordsAttempt(t) == pc[t] = "attempt" /\ pc'[t] = "next"

\* C13 under the repository's update_reconciliation_attempt: the NO_MATCH
\* step of the coordinator writes only the attempt timestamp of the
\* triggering row, inside the transaction.
C13_AttemptStepWritesOnlyTimestamp ==
    [][\A t \in Tasks :
          RecordsAttempt(t) =>
             LET old == View(t)[cur[t]]
                 new == writes'[t][cur[t]] IN
             /\ ~IsPairMatch(mr[t])
             /\ new.attempted_at # old.attempted_at
             /\ [new EXCEPT !.attempted_at = old.attempted_at] = old
             /\ new.state = "MAPPED" /\ new.match = NoId
             /\ \A i \in EngineIds \ {cur[t]} : writes'[t][i] = writes[t][i]
             /\ events' = events /\ audit' = audit /\ txaudit' = txaudit]_vars

\* the event has left MAPPED through the engine
IsTerminal(ev) == ev.state \in {"RECONCILED", "FLAGGED_FOR_REVIEW"}

\* C20: a step that changes the committed state of an event takes it from
\* MAPPED to RECONCILED or to FLAGGED_FOR_REVIEW, and no step changes the
\* state, the reconciliation_match_id or the reconciliation notes of an event
\* that is RECONCILED or FLAGGED_FOR_REVIEW.
C20_TerminalEventsImmutable ==
    [][\A e \in EngineIds :
          /\ events'[e].state # events[e].state =>
                events[e].state = "MAPPED" /\ IsTerminal(events'[e])
          /\ IsTerminal(events[e]) =>
                /\ events'[e].state = events[e].state
                /\ events'[e].match = events[e].match
                /\ events'[e].notes = events[e].notes]_vars

\* the rows the sweep's open transaction has locked: its batch, and the
\* counterparts it has updated
SweepLocked == held[SweepTask]

\* the step is the sweep's commit
SweepCommits ==
    /\ pc[SweepTask] = "next" /\ pc'[SweepTask] = "idle"
    /\ outcome'[SweepTask].result = "committed"

MatchedTo(id) == {a \in EngineIds : events[a].match = id}

\* C24: in every committed state an event is the reconciliation_match_id of
\* at most one event.
C24_OneToOneMatching ==
    \A id \in EngineIds : Cardinality(MatchedTo(id)) <= 1

(***************************************************************************)
(* Engine claims with the verification route (checked under SpecVerify)    *)
(***************************************************************************)

\* C25: in every committed state an event carries a reconciliation_match_id
\* exactly when it is RECONCILED or FLAGGED_FOR_REVIEW.
C25_MatchIdIffTerminalState ==
    \A e \in EngineIds : events[e].match # NoId <=> IsTerminal(events[e])

(***************************************************************************)
(* Sweep claims (checked under Spec)                                       *)
(***************************************************************************)

\* the step in which the sweep calls lock_and_fetch_batch
SweepStarts ==
    /\ pc[SweepTask] = "idle"
    /\ nAttempts' = nAttempts + 1
    /\ outcome'[SweepTask].attempt = nAttempts'

\* the batch the call returned, in order; empty when it returned nothing or failed
Fetched ==
    IF outcome'[SweepTask].result = "running"
    THEN <<cur'[SweepTask]>> \o batch'[SweepTask] ELSE <<>>

\* MAPPED rows without a match id, of every kind / of the kinds the query names
EligibleRows == {r \in Rows(events) : r.state = "MAPPED" /\ r.match = NoId}

EligibleSweepRows ==
    {r \in EligibleRows : r.event_kind \in {"INVOICE_RECEIVED", "PAYMENT_SENT"}}

\* ids is a batch of at most limit of the rows, oldest first, none older skipped
IsOldestBatch(ids, rows, limit) ==
    /\ Len(ids) <= limit
    /\ Len(ids) = limit \/ Len(ids) = Cardinality(rows)
    /\ \A i \in DOMAIN ids : events[ids[i]] \in rows
    /\ \A i, j \in DOMAIN ids :
          i < j => events[ids[i]].recorded_at < events[ids[j]].recorded_at
    /\ \A r \in rows :
          r.event_id \notin SeqToSet(ids) =>
             \A i \in DOMAIN ids : events[ids[i]].recorded_at < r.recorded_at

\* what one call of lock_and_fetch_batch does, for the rows that count as eligible
LockAndFetchContract(rows) ==
    SweepStarts =>
        \E limit \in 1 .. MaxBatchLimit :
            \/ /\ outcome'[SweepTask].result \in {"running", "empty"}
               /\ IsOldestBatch(Fetched, rows, limit)
               /\ held'[SweepTask] = SeqToSet(Fetched)
               /\ \A u \in Tasks \ {SweepTask} : held[u] \cap SeqToSet(Fetched) = {}
            \/ /\ outcome'[SweepTask].result = "LockUnavailable"
               /\ \E selected \in SUBSET rows :
                     /\ Cardinality(selected) <= limit
                     /\ Cardinality(selected) = limit \/ selected = rows
                     /\ \A r \in selected, q \in rows \ selected :
                           r.recorded_at < q.recorded_at
                     /\ \E u \in Tasks \ {SweepTask}, r \in selected :
                           r.event_id \in held[u]
               /\ held'[SweepTask] = {} /\ pc'[SweepTask] = "idle"

\* the locks of the batch are held until the transaction ends
LocksKeptUntilEnd ==
    \A t \in Tasks : pc'[t] # "idle" => held[t] \subseteq held'[t]

\* C15: lock_and_fetch_batch returns at most limit events, each MAPPED
\* without a match id, oldest first with no older eligible event skipped,
\* holds the row lock of each until the transaction ends, and fails at once
\* when a selected row is locked elsewhere.
C15_LockAndFetchBatch ==
    [][LockAndFetchContract(EligibleRows) /\ LocksKeptUntilEnd]_vars

\* C15 for the event kinds the query names (INVOICE_RECEIVED, PAYMENT_SENT)
C15_LockAndFetchBatchOfSweepKinds ==
    [][LockAndFetchContract(EligibleSweepRows) /\ LocksKeptUntilEnd]_vars

\* the step in which the sweep's lock_and_fetch_batch fails on a locked row
SweepObservesLockUnavailable ==
    SweepStarts /\ outcome'[SweepTask].result = "LockUnavailable"

\* the oldest row the sweep's query selects (a candidate for every limit) is
\* locked by an on-demand attempt
OldestCandidateLockedElsewhere ==
    \E r \in EligibleSweepRows :
        /\ \A q \in EligibleSweepRows : r.recorded_at <= q.recorded_at
        /\ \E u \in OnDemandTasks : r.event_id \in held[u]

SweepPairWrites ==
    {id \in EngineIds :
        /\ writes[SweepTask][id] # NoEvent
        /\ writes[SweepTask][id].match # NoId
        /\ Eligible(events[id])}

\* the audit entries of the sweep's open transaction for a or for b
SweepAuditFor(a, b) ==
    {i \in DOMAIN txaudit[SweepTask] : txaudit[SweepTask][i].entity_id \in {a, b}}

IsEligibleCounterpart(e, c) ==
    /\ Eligible(c)
    /\ c.currency = e.currency
    /\ \/ e.event_kind \in InvoiceKinds /\ c.event_kind = "PAYMENT_SENT"
       \/ e.event_kind = "PAYMENT_SENT" /\ c.event_kind \in InvoiceKinds
    /\ ReferenceOf(c) = ReferenceOf(e)

\* event id is eligible in the committed store and has an eligible counterpart
Waiting(id) ==
    /\ Eligible(events[id])
    /\ \E c \in Rows(events) : IsEligibleCounterpart(events[id], c)

\* C17: with the sweep running for ever, no event stays for ever eligible
\* with an eligible counterpart in the store: it is eventually moved to
\* RECONCILED or FLAGGED_FOR_REVIEW.
C17_SweepEventuallyReconciles ==
    \A id \in EngineIds : []<>(~Waiting(id))

(***************************************************************************)
(* Agent claims (checked under SpecAgent)                                  *)
(***************************************************************************)

\* the request being handled is for an event that already carries a match
\* id or is not in the state the helpers look for
RequestNotEligible ==
    /\ a_event # NoEvent
    /\ a_event.match # NoId \/ a_event.state # "POSTED_ONCHAIN"

\* C5: handling a request for an event that already carries a
\* reconciliation_match_id, or whose state is not the eligible state, changes
\* no event row and adds no reconciliation record and no audit entry.
C5_MatchedEventIsNoOp ==
    [][(a_pc # "idle" /\ RequestNotEligible) =>
          /\ events' = events
          /\ reconciliations' = reconciliations
          /\ audit' = audit]_vars


\* the request ended as a match of the given kind
RequestEndedAs(status) ==
    a_pc \in {"respond", "idle"} /\ a_result.reconciliation_status = status

\* the audit entries with the action, for the event of the request
AuditEntriesFor(action) ==
    {i \in DOMAIN audit :
        audit[i].action = action /\ audit[i].entity_id = a_event.event_id}

\* C12: an attempt that ends in a PRIMARY_MATCH has moved both events to
\* RECONCILED and written exactly one RECONCILE_SUCCESS audit entry for the
\* triggering event; one that ends in a PARTIAL_MATCH has moved both to
\* FLAGGED_FOR_REVIEW and written exactly one RECONCILE_FAIL_PARTIAL entry.
C12_OneUpdateThenAudit ==
    /\ RequestEndedAs("RECONCILED") =>
          /\ events[a_mr.invoice_id].state = "RECONCILED"
          /\ events[a_mr.payment_id].state = "RECONCILED"
          /\ Cardinality(AuditEntriesFor("RECONCILE_SUCCESS")) = 1
          /\ AuditEntriesFor("RECONCILE_FAIL_PARTIAL") = {}
    /\ RequestEndedAs("PARTIAL") =>
          /\ events[a_mr.invoice_id].state = "FLAGGED_FOR_REVIEW"
          /\ events[a_mr.payment_id].state = "FLAGGED_FOR_REVIEW"
          /\ Cardinality(AuditEntriesFor("RECONCILE_FAIL_PARTIAL")) = 1
          /\ AuditEntriesFor("RECONCILE_SUCCESS") = {}

\* the request was for an eligible event and ended without a match
EndedInNoMatch ==
    /\ a_pc \in {"respond", "idle"}
    /\ a_result = Unreconciled("NONE")
    /\ a_event.state = "POSTED_ONCHAIN" /\ a_event.match = NoId

\* C13: after an attempt on an eligible event that ends in NO_MATCH the
\* event's reconciliation_attempted_at has been updated and nothing else of
\* the row has changed: same state, still no match id, same notes.
C13_NoMatchOnlyStampsAttempt ==
    EndedInNoMatch =>
        LET row == events[a_event.event_id] IN
        /\ row.attempted_at # a_event.attempted_at
        /\ [row EXCEPT !.attempted_at = a_event.attempted_at] = a_event

\* the request ended in the except branch: a store call raised
RequestFailed ==
    a_pc \in {"respond", "idle"} /\ a_result # NoAgentResult /\ ~a_result.success

\* the responses sent so far that report a match
MatchedResponses ==
    {i \in DOMAIN responses :
        responses[i].result.reconciliation_status \in {"RECONCILED", "PARTIAL"}}

\* C19: after an attempt that ended in a store error nothing of the attempt
\* is left in the store: the triggering event's row and the counterpart's row
\* are what they were when the attempt began (so the event is still eligible)
\* and every reconciliation record belongs to an attempt that reported a match.
C19_StoreErrorLeavesNothing ==
    RequestFailed =>
        /\ events[a_event.event_id] = a_event
        /\ a_cp # NoEvent => events[a_cp.event_id] = a_cp
        /\ Len(reconciliations) = Cardinality(MatchedResponses)

\* C28: every reconciliation record carries as amount_difference the
\* absolute difference of the amounts of the two events it links.
C28_RecordedDifferenceIsActual ==
    \A i \in DOMAIN reconciliations :
        LET d == reconciliations[i].data IN
        d.amount_difference =
            Abs(events[d.invoice_event_id].amount_minor
                  - events[d.payment_event_id].amount_minor)

\* the positions of process_reconciliation at which a store call is made
StoreCalls == {"lookup", "insert", "update_invoice", "update_payment"}

\* C29: every request is answered by exactly one response, sent before the
\* handler returns and carrying the event id of the request and the result
\* of process_reconciliation; from every store call process_reconciliation
\* goes on or returns a result, and the result of a store error is success
\* False with reconciliation_status UNRECONCILED.
C29_OneResponsePerRequest ==
    /\ [](Len(responses) = IF a_pc = "idle" THEN nRequests ELSE nRequests - 1)
    /\ [](\A i \in DOMAIN responses :
             ~responses[i].result.success =>
                 responses[i].result.reconciliation_status = "UNRECONCILED")
    /\ [][/\ a_pc' = "idle" /\ a_pc # "idle" =>
                /\ a_pc = "respond"
                /\ responses' = Append(responses, [event_id |-> a_event.event_id,
                                                   result |-> a_result])
          /\ a_pc \in StoreCalls /\ a_pc' \notin StoreCalls =>
                /\ a_pc' = "respond"
                /\ a_result'.reconciliation_status \in
                      {"RECONCILED", "PARTIAL", "UNRECONCILED"}
                /\ ~a_result'.success =>
                      a_result'.reconciliation_status = "UNRECONCILED"]_vars

\* C29 witness: two requests were answered, one after a store error with
\* success False and one with a match
C29_FailureAndMatchAnswered ==
    /\ a_pc = "idle" /\ nRequests = MaxRequests /\ Len(responses) = MaxRequests
    /\ \E i, j \in DOMAIN responses :
          /\ ~responses[i].result.success
          /\ responses[i].result.error_message \in StoreCalls
          /\ responses[j].result.success
          /\ responses[j].result.reconciliation_status \in {"RECONCILED", "PARTIAL"}

\* the result reports a match
ReportsMatch(result) == result.reconciliation_status \in {"RECONCILED", "PARTIAL"}

\* the store holds the attempt's reconciliation record and both events of
\* the match carry each other's id
MatchIsStored ==
    /\ Len(reconciliations) = Cardinality(MatchedResponses) + 1
    /\ reconciliations[Len(reconciliations)].data = ReconciliationData(a_mr)
    /\ events[a_mr.invoice_id].match = a_mr.payment_id
    /\ events[a_mr.payment_id].match = a_mr.invoice_id

\* the store holds nothing of the attempt
NothingIsStored ==
    /\ Len(reconciliations) = Cardinality(MatchedResponses)
    /\ events[a_event.event_id] = a_event
    /\ a_cp # NoEvent => events[a_cp.event_id] = a_cp

\* C30: when process_reconciliation has returned, its result reports
\* RECONCILED or PARTIAL, with a matched_event_id, exactly when the record
\* of the attempt was inserted and both events carry each other's id; with
\* any UNRECONCILED result, success False included, the attempt has left no
\* record and has stamped neither event.
C30_ResultConsistentWithStore ==
    a_pc = "respond" =>
        IF ReportsMatch(a_result)
        THEN a_result.matched_event_id # NoId /\ MatchIsStored
        ELSE NothingIsStored

\* C30 holds as long as no attempt has ended in a store error (see C19)
C30_ConsistentWithoutStoreError ==
    (a_pc = "respond" /\ a_result.success
       /\ \A i \in DOMAIN responses : responses[i].result.success) =>
        IF ReportsMatch(a_result)
        THEN a_result.matched_event_id # NoId /\ MatchIsStored
        ELSE NothingIsStored
====
